---- MODULE Spec2Model ----
(***************************************************************************)
(* Model of scripts/uuid_generator.py: the Git-DRS deterministic UUID      *)
(* generator.  A Python str is modelled as a sequence of characters, each  *)
(* character a TLA+ string; bytes are naturals below 256; a 32-bit word is  *)
(* a pair <<high 16 bits, low 16 bits>>.                                    *)
(***************************************************************************)
EXTENDS Integers, Sequences, FiniteSets, TLC

(***************************************************************************)
(* Characters.  The printable ASCII characters (the grave accent, which a   *)
(* TLA+ string cannot hold, under a name), the newline, and one lone       *)
(* surrogate (what sys.argv holds for a command-line byte that is not      *)
(* valid UTF-8, decoded with the surrogateescape handler).                 *)
(***************************************************************************)
AsciiPrintable ==
    <<
       " ", "!", "\"", "#", "$", "%", "&", "'", "(", ")", "*", "+",
       ",", "-", ".", "/", "0", "1", "2", "3", "4", "5", "6", "7",
       "8", "9", ":", ";", "<", "=", ">", "?", "@", "A", "B", "C",
       "D", "E", "F", "G", "H", "I", "J", "K", "L", "M", "N", "O",
       "P", "Q", "R", "S", "T", "U", "V", "W", "X", "Y", "Z", "[",
       "\\", "]", "^", "_", "<backtick>", "a", "b", "c", "d", "e", "f", "g",
       "h", "i", "j", "k", "l", "m", "n", "o", "p", "q", "r", "s",
       "t", "u", "v", "w", "x", "y", "z", "{", "|", "}", "~"
    >>

NEWLINE == "\n"

SURROGATE == "\\udcff"

\* ord(c) for the characters of the model.
Ord(c) ==
    IF c = NEWLINE THEN 10
    ELSE 31 + (CHOOSE i \in 1..Len(AsciiPrintable) : AsciiPrintable[i] = c)

\* Whether str.encode("utf-8") accepts the character: a lone surrogate is refused.
Utf8Encodable(c) == c # SURROGATE

\* bytes(name, "utf-8") of a string of encodable characters.
Utf8Bytes(s) == [i \in 1..Len(s) |-> Ord(s[i])]

UpperLetters ==
    <<"A", "B", "C", "D", "E", "F", "G", "H", "I", "J", "K", "L", "M",
      "N", "O", "P", "Q", "R", "S", "T", "U", "V", "W", "X", "Y", "Z">>

LowerLetters ==
    <<"a", "b", "c", "d", "e", "f", "g", "h", "i", "j", "k", "l", "m",
      "n", "o", "p", "q", "r", "s", "t", "u", "v", "w", "x", "y", "z">>

\* The function from each letter of `from' to the letter of `to' at its place.
RECURSIVE LetterMap(_, _, _)
LetterMap(from, to, i) ==
    IF i = Len(from) THEN from[i] :> to[i]
    ELSE (from[i] :> to[i]) @@ LetterMap(from, to, i + 1)

ToLower == LetterMap(UpperLetters, LowerLetters, 1)

ToUpper == LetterMap(LowerLetters, UpperLetters, 1)

LowerChar(c) == IF c \in DOMAIN ToLower THEN ToLower[c] ELSE c

\* str.lower()
Lower(s) == [i \in 1..Len(s) |-> LowerChar(s[i])]

(***************************************************************************)
(* 32-bit words as <<hi, lo>>, each half in 0..65535.                      *)
(***************************************************************************)
\* a AND b for a, b in 0..15, as AndNibble[a + 1][b + 1].
AndNibble ==
    [a \in 1..16 |-> [b \in 1..16 |->
        ((((a - 1) \div 8) % 2) * (((b - 1) \div 8) % 2)) * 8
        + ((((a - 1) \div 4) % 2) * (((b - 1) \div 4) % 2)) * 4
        + ((((a - 1) \div 2) % 2) * (((b - 1) \div 2) % 2)) * 2
        + (((a - 1) % 2) * ((b - 1) % 2))]]

And16(a, b) ==
    AndNibble[(a % 16) + 1][(b % 16) + 1]
    + 16 * AndNibble[((a \div 16) % 16) + 1][((b \div 16) % 16) + 1]
    + 256 * AndNibble[((a \div 256) % 16) + 1][((b \div 256) % 16) + 1]
    + 4096 * AndNibble[(a \div 4096) + 1][(b \div 4096) + 1]

Xor16(a, b) == a + b - 2 * And16(a, b)

Or16(a, b) == a + b - And16(a, b)

WAnd(x, y) == <<And16(x[1], y[1]), And16(x[2], y[2])>>

WOr(x, y) == <<Or16(x[1], y[1]), Or16(x[2], y[2])>>

WXor(x, y) == <<Xor16(x[1], y[1]), Xor16(x[2], y[2])>>

WNot(x) == <<65535 - x[1], 65535 - x[2]>>

WAdd(x, y) ==
    LET lo == x[2] + y[2]
        hi == x[1] + y[1] + (lo \div 65536)
    IN  <<hi % 65536, lo % 65536>>

RECURSIVE WRotl(_, _)
WRotl(x, n) ==
    IF n = 0 THEN x
    ELSE IF n >= 16 THEN WRotl(<<x[2], x[1]>>, n - 16)
    ELSE <<((x[1] * (2 ^ n)) % 65536) + (x[2] \div (2 ^ (16 - n))),
           ((x[2] * (2 ^ n)) % 65536) + (x[1] \div (2 ^ (16 - n)))>>

\* The four bytes of a word, most significant first.
WBytesBE(x) == <<x[1] \div 256, x[1] % 256, x[2] \div 256, x[2] % 256>>

WBytesLE(x) == <<x[2] % 256, x[2] \div 256, x[1] % 256, x[1] \div 256>>

WFromBE(b, k) == <<b[k] * 256 + b[k + 1], b[k + 2] * 256 + b[k + 3]>>

WFromLE(b, k) == <<b[k + 3] * 256 + b[k + 2], b[k + 1] * 256 + b[k]>>

Zeros(n) == [i \in 1..n |-> 0]

\* The message length in bits as eight bytes, most significant first
\* (messages of the model are shorter than 2^16 bits).
BitLen8BE(n) == <<0, 0, 0, 0, 0, 0, (8 * n) \div 256, (8 * n) % 256>>

BitLen8LE(n) == <<(8 * n) % 256, (8 * n) \div 256, 0, 0, 0, 0, 0, 0>>

\* Number of zero bytes between the 0x80 marker and the length field.
PadZeros(n) == (119 - (n % 64)) % 64

(***************************************************************************)
(* MD5 (hashlib.md5), used by uuid.uuid3.                                  *)
(***************************************************************************)
MD5K ==
    <<
       <<55146, 42104>>, <<59591, 46934>>, <<9248, 28891>>, <<49597, 52974>>,
       <<62844, 4015>>, <<18311, 50730>>, <<43056, 17939>>, <<64838, 38145>>,
       <<27008, 39128>>, <<35652, 63407>>, <<65535, 23473>>, <<35164, 55230>>,
       <<27536, 4386>>, <<64920, 29075>>, <<42617, 17294>>, <<18868, 2081>>,
       <<63006, 9570>>, <<49216, 45888>>, <<9822, 23121>>, <<59830, 51114>>,
       <<54831, 4189>>, <<580, 5203>>, <<55457, 59009>>, <<59347, 64456>>,
       <<8673, 52710>>, <<49975, 2006>>, <<62677, 3463>>, <<17754, 5357>>,
       <<43491, 59653>>, <<64751, 41976>>, <<26479, 729>>, <<36138, 19594>>,
       <<65530, 14658>>, <<34673, 63105>>, <<28061, 24866>>, <<64997, 14348>>,
       <<42174, 59972>>, <<19422, 53161>>, <<63163, 19296>>, <<48831, 48240>>,
       <<10395, 32454>>, <<60065, 10234>>, <<54511, 12421>>, <<1160, 7429>>,
       <<55764, 53305>>, <<59099, 39397>>, <<8098, 31992>>, <<50348, 22117>>,
       <<62505, 8772>>, <<17194, 65431>>, <<43924, 9127>>, <<64659, 41017>>,
       <<25947, 22979>>, <<36620, 52370>>, <<65519, 62589>>, <<34180, 24017>>,
       <<28584, 32335>>, <<65068, 59104>>, <<41729, 17172>>, <<19976, 4513>>,
       <<63315, 32386>>, <<48442, 62005>>, <<10967, 53947>>, <<60294, 54161>>
    >>

MD5S ==
    <<7, 12, 17, 22, 7, 12, 17, 22, 7, 12, 17, 22, 7, 12, 17, 22,
      5, 9, 14, 20, 5, 9, 14, 20, 5, 9, 14, 20, 5, 9, 14, 20,
      4, 11, 16, 23, 4, 11, 16, 23, 4, 11, 16, 23, 4, 11, 16, 23,
      6, 10, 15, 21, 6, 10, 15, 21, 6, 10, 15, 21, 6, 10, 15, 21>>

MD5Init == << <<26437, 8961>>, <<61389, 43913>>, <<39098, 56574>>, <<4146, 21622>> >>

MD5Pad(m) == m \o <<128>> \o Zeros(PadZeros(Len(m))) \o BitLen8LE(Len(m))

\* Round i (0..63) of the compression function on state st = <<A, B, C, D>>
\* and the block's sixteen words M.
MD5Step(st, M, i) ==
    LET A == st[1]
        B == st[2]
        C == st[3]
        D == st[4]
        F == IF i < 16 THEN WOr(WAnd(B, C), WAnd(WNot(B), D))
             ELSE IF i < 32 THEN WOr(WAnd(D, B), WAnd(WNot(D), C))
             ELSE IF i < 48 THEN WXor(B, WXor(C, D))
             ELSE WXor(C, WOr(B, WNot(D)))
        g == IF i < 16 THEN i
             ELSE IF i < 32 THEN (5 * i + 1) % 16
             ELSE IF i < 48 THEN (3 * i + 5) % 16
             ELSE (7 * i) % 16
        T == WAdd(WAdd(F, A), WAdd(MD5K[i + 1], M[g + 1]))
    IN  <<D, WAdd(B, WRotl(T, MD5S[i + 1])), B, C>>

RECURSIVE MD5Rounds(_, _, _)
MD5Rounds(st, M, i) ==
    IF i = 64 \/ Len(st) # 4 THEN st ELSE MD5Rounds(MD5Step(st, M, i), M, i + 1)

WAddEach(st, r) == [j \in 1..Len(st) |-> WAdd(st[j], r[j])]

MD5Block(st, b, k) ==
    WAddEach(st, MD5Rounds(st, [j \in 1..16 |-> WFromLE(b, k + 4 * (j - 1))], 0))

RECURSIVE MD5Blocks(_, _, _)
MD5Blocks(st, b, k) ==
    IF k > Len(b) THEN st ELSE MD5Blocks(MD5Block(st, b, k), b, k + 64)

\* hashlib.md5(m).digest(): sixteen bytes.
MD5Digest(st) ==
    WBytesLE(st[1]) \o WBytesLE(st[2]) \o WBytesLE(st[3]) \o WBytesLE(st[4])

MD5(m) == MD5Digest(MD5Blocks(MD5Init, MD5Pad(m), 1))

(***************************************************************************)
(* SHA-1 (hashlib.sha1), used by uuid.uuid5.                               *)
(***************************************************************************)
SHA1Init ==
    << <<26437, 8961>>, <<61389, 43913>>, <<39098, 56574>>, <<4146, 21622>>,
       <<50130, 57840>> >>

SHA1Pad(m) == m \o <<128>> \o Zeros(PadZeros(Len(m))) \o BitLen8BE(Len(m))

\* The eighty words of the message schedule, from the block's sixteen.
RECURSIVE SHA1Schedule(_, _)
SHA1Schedule(W, t) ==
    IF t > Len(W) + 1 \/ t > 80 THEN W
    ELSE SHA1Schedule(
             Append(W, WRotl(WXor(WXor(W[t - 3], W[t - 8]),
                                  WXor(W[t - 14], W[t - 16])), 1)),
             t + 1)

\* Round t (0..79) on state st = <<a, b, c, d, e>>.
SHA1Step(st, W, t) ==
    LET a == st[1]
        b == st[2]
        c == st[3]
        d == st[4]
        e == st[5]
        f == IF t < 20 THEN WOr(WAnd(b, c), WAnd(WNot(b), d))
             ELSE IF t < 40 THEN WXor(b, WXor(c, d))
             ELSE IF t < 60 THEN WOr(WOr(WAnd(b, c), WAnd(b, d)), WAnd(c, d))
             ELSE WXor(b, WXor(c, d))
        k == IF t < 20 THEN <<23170, 31129>>
             ELSE IF t < 40 THEN <<28377, 60321>>
             ELSE IF t < 60 THEN <<36635, 48348>>
             ELSE <<51810, 49622>>
        T == WAdd(WAdd(WRotl(a, 5), f), WAdd(WAdd(e, k), W[t + 1]))
    IN  <<T, a, WRotl(b, 30), c, d>>

RECURSIVE SHA1Rounds(_, _, _)
SHA1Rounds(st, W, t) ==
    IF t = 80 \/ Len(st) # 5 THEN st ELSE SHA1Rounds(SHA1Step(st, W, t), W, t + 1)

SHA1Block(st, b, k) ==
    WAddEach(st, SHA1Rounds(st,
                            SHA1Schedule([j \in 1..16 |-> WFromBE(b, k + 4 * (j - 1))],
                                         17),
                            0))

RECURSIVE SHA1Blocks(_, _, _)
SHA1Blocks(st, b, k) ==
    IF k > Len(b) THEN st ELSE SHA1Blocks(SHA1Block(st, b, k), b, k + 64)

\* hashlib.sha1(m).digest(): twenty bytes.
SHA1Digest(st) ==
    WBytesBE(st[1]) \o WBytesBE(st[2]) \o WBytesBE(st[3]) \o WBytesBE(st[4])
    \o WBytesBE(st[5])

SHA1(m) == SHA1Digest(SHA1Blocks(SHA1Init, SHA1Pad(m), 1))

(***************************************************************************)
(* uuid.UUID: a UUID object is its sixteen bytes.                          *)
(***************************************************************************)
\* uuid.UUID(bytes=b, version=v): the variant bits set to RFC 4122, the
\* version nibble set to v.
UUIDFromBytes(b, v) ==
    [i \in 1..16 |->
        IF i = 7 THEN (b[i] % 16) + 16 * v
        ELSE IF i = 9 THEN (b[i] % 64) + 128
        ELSE b[i]]

HexDigits ==
    <<"0", "1", "2", "3", "4", "5", "6", "7", "8", "9", "a", "b", "c", "d", "e", "f">>

HexByte(b) == <<HexDigits[(b \div 16) + 1], HexDigits[(b % 16) + 1]>>

RECURSIVE HexBytes(_, _, _)
HexBytes(b, i, j) == IF i > j THEN <<>> ELSE HexByte(b[i]) \o HexBytes(b, i + 1, j)

\* str(u): 8-4-4-4-12 lower-case hexadecimal digits.
UUIDStr(u) ==
    HexBytes(u, 1, 4) \o <<"-">> \o HexBytes(u, 5, 6) \o <<"-">> \o HexBytes(u, 7, 8)
    \o <<"-">> \o HexBytes(u, 9, 10) \o <<"-">> \o HexBytes(u, 11, 16)

\* uuid.NAMESPACE_DNS = 6ba7b810-9dad-11d1-80b4-00c04fd430c8
NAMESPACE_DNS ==
    <<107, 167, 184, 16, 157, 173, 17, 209, 128, 180, 0, 192, 79, 212, 48, 200>>

\* uuid.uuid3(namespace, name), name a string of encodable characters.
uuid3(namespace, name) ==
    UUIDFromBytes(SubSeq(MD5(namespace \o Utf8Bytes(name)), 1, 16), 3)

\* uuid.uuid5(namespace, name): the UUID, or the UnicodeEncodeError that
\* bytes(name, "utf-8") raises on a lone surrogate.
uuid5(namespace, name) ==
    IF \A i \in 1..Len(name) : Utf8Encodable(name[i])
    THEN [raised |-> "",
          value |-> UUIDFromBytes(SubSeq(SHA1(namespace \o Utf8Bytes(name)), 1, 16), 5)]
    ELSE [raised |-> "UnicodeEncodeError", value |-> <<>>]

(***************************************************************************)
(* String helpers.                                                         *)
(***************************************************************************)
DecimalDigits == <<"0", "1", "2", "3", "4", "5", "6", "7", "8", "9">>

RECURSIVE NatStr(_)
NatStr(n) ==
    IF n < 10 THEN <<DecimalDigits[n + 1]>>
    ELSE NatStr(n \div 10) \o <<DecimalDigits[(n % 10) + 1]>>

\* str(n) of an int, as the f-strings format it.
IntStr(n) == IF n < 0 THEN <<"-">> \o NatStr(-n) ELSE NatStr(n)

(***************************************************************************)
(* Module constants.                                                       *)
(***************************************************************************)
AUTHORITY ==
    <<"c", "a", "l", "y", "p", "r", ".", "o", "r", "g">>

NAMESPACE_NAME ==
    <<"a", "c", "e", "d", "-", "i", "d", "p", ".", "o", "r", "g">>

\* A variant: the namespace derived with uuid5 instead of uuid3.
ACED_NAMESPACE_load_v5 == uuid5(NAMESPACE_DNS, NAMESPACE_NAME).value

\* The value bound to ACED_NAMESPACE when the module is loaded.
ACED_NAMESPACE_load == uuid3(NAMESPACE_DNS, NAMESPACE_NAME)

(***************************************************************************)
(* normalize_logical_path                                                  *)
(***************************************************************************)
\* path.replace('\\', '/')
ReplaceBackslashes(path) ==
    [i \in 1..Len(path) |-> IF path[i] = "\\" THEN "/" ELSE path[i]]

\* A variant: path.replace('//', '/'), one pass from the left.
RECURSIVE ReplaceDoubleSlashOnce(_)
ReplaceDoubleSlashOnce(path) ==
    IF Len(path) < 2 THEN path
    ELSE IF path[1] = "/" /\ path[2] = "/"
         THEN <<"/">> \o ReplaceDoubleSlashOnce(SubSeq(path, 3, Len(path)))
         ELSE <<path[1]>> \o ReplaceDoubleSlashOnce(Tail(path))

\* re.sub(r'/+', '/', path): every maximal run of slashes becomes one slash.
RECURSIVE CollapseSlashes(_)
CollapseSlashes(path) ==
    IF path = <<>> THEN <<>>
    ELSE IF Head(path) = "/" /\ Len(path) > 1 /\ path[2] = "/"
         THEN CollapseSlashes(Tail(path))
         ELSE <<Head(path)>> \o CollapseSlashes(Tail(path))

\* path.rstrip('/')
RECURSIVE RStripSlashes(_)
RStripSlashes(path) ==
    IF path # <<>> /\ path[Len(path)] = "/"
    THEN RStripSlashes(SubSeq(path, 1, Len(path) - 1))
    ELSE path

\* if len(path) > 1 and path.endswith('/'): path = path.rstrip('/')
StripTrailingSlash(path) ==
    IF Len(path) > 1 /\ path[Len(path)] = "/" THEN RStripSlashes(path) ELSE path

\* A variant: the slash prepended whatever the path starts with.
AlwaysPrependSlash(path) == <<"/">> \o path

\* if not path.startswith('/'): path = '/' + path
EnsureLeadingSlash(path) ==
    IF path # <<>> /\ path[1] = "/" THEN path ELSE <<"/">> \o path

normalize_logical_path(path) ==
    EnsureLeadingSlash(StripTrailingSlash(CollapseSlashes(ReplaceBackslashes(path))))

(***************************************************************************)
(* validate_inputs                                                         *)
(***************************************************************************)
DIGEST_LEN == 64

HexChars ==
    {"0", "1", "2", "3", "4", "5", "6", "7", "8", "9",
     "a", "b", "c", "d", "e", "f", "A", "B", "C", "D", "E", "F"}

\* re.match(r'^[0-9a-fA-F]{64}$', s): sixty-four hexadecimal characters, then
\* the end of the string or one newline that ends it.
MatchHex64(s) ==
    /\ Len(s) >= DIGEST_LEN
    /\ \A i \in 1..DIGEST_LEN : s[i] \in HexChars
    /\ \/ Len(s) = DIGEST_LEN
       \/ Len(s) = DIGEST_LEN + 1 /\ s[DIGEST_LEN + 1] = NEWLINE

\* A variant: the size checked before the digest.
validate_size_first(sha256, size) ==
    IF size < 0
    THEN [is_valid |-> FALSE, error_msg |-> <<"Size must be non-negative">>]
    ELSE IF Len(sha256) # DIGEST_LEN
    THEN [is_valid |-> FALSE,
          error_msg |-> <<"SHA256 must be 64 characters, got ">> \o IntStr(Len(sha256))]
    ELSE IF ~MatchHex64(sha256)
    THEN [is_valid |-> FALSE, error_msg |-> <<"SHA256 must be hexadecimal">>]
    ELSE [is_valid |-> TRUE, error_msg |-> <<>>]

\* A variant: the digest not checked at all.
validate_size_only(sha256, size) ==
    IF size < 0
    THEN [is_valid |-> FALSE, error_msg |-> <<"Size must be non-negative">>]
    ELSE [is_valid |-> TRUE, error_msg |-> <<>>]

\* The tuple (is_valid, error_message); a message is the sequence of its pieces.
validate_inputs(sha256, size) ==
    IF Len(sha256) # DIGEST_LEN
    THEN [is_valid |-> FALSE,
          error_msg |-> <<"SHA256 must be 64 characters, got ">> \o IntStr(Len(sha256))]
    ELSE IF ~MatchHex64(sha256)
    THEN [is_valid |-> FALSE, error_msg |-> <<"SHA256 must be hexadecimal">>]
    ELSE IF size < 0
    THEN [is_valid |-> FALSE, error_msg |-> <<"Size must be non-negative">>]
    ELSE [is_valid |-> TRUE, error_msg |-> <<>>]

(***************************************************************************)
(* compute_deterministic_uuid                                              *)
(***************************************************************************)
\* f"did:gen3:{AUTHORITY}:{normalized_path}:{normalized_sha256}:{size}"
CanonicalDID(normalized_path, normalized_sha256, size) ==
    <<"d", "i", "d", ":", "g", "e", "n", "3", ":">> \o AUTHORITY \o <<":">>
    \o normalized_path \o <<":">> \o normalized_sha256 \o <<":">> \o IntStr(size)

(***************************************************************************)
(* Inputs.                                                                 *)
(***************************************************************************)
RECURSIVE StringsUpTo(_, _)
StringsUpTo(alphabet, n) ==
    IF n = 0 THEN {<<>>}
    ELSE LET shorter == StringsUpTo(alphabet, n - 1)
         IN  shorter \cup {Append(s, c) : s \in shorter, c \in alphabet}

\* A string of n characters: those of head, then fill.
DigestOf(head, fill, n) == [i \in 1..n |-> IF i <= Len(head) THEN head[i] ELSE fill]

DigestLower == DigestOf(<<"a", "0", "c">>, "f", DIGEST_LEN)

DigestUpper == DigestOf(<<"A", "0", "C">>, "F", DIGEST_LEN)

DigestMixed == DigestOf(<<"A", "0", "c">>, "f", DIGEST_LEN)

DigestOther == DigestOf(<<"b", "0", "c">>, "f", DIGEST_LEN)

DigestShort == DigestOf(<<>>, "f", DIGEST_LEN - 1)

\* Sixty-four characters, the first a colon, the rest those of DigestShort.
DigestColon == <<":">> \o DigestShort

DigestNonHex == DigestOf(<<"a", "0", "g">>, "f", DIGEST_LEN)

\* The inputs of test_cases.
TestPath ==
    <<"/", "d", "a", "t", "a", "/", "s", "a", "m", "p", "l", "e", ".", "f",
      "a", "s", "t", "q">>

TestPathRelative ==
    <<"d", "a", "t", "a", "/", "s", "a", "m", "p", "l", "e", ".", "f", "a",
      "s", "t", "q">>

TestDigest ==
    <<"e", "3", "b", "0", "c", "4", "4", "2", "9", "8", "f", "c", "1", "c",
      "1", "4", "9", "a", "f", "b", "f", "4", "c", "8", "9", "9", "6", "f",
      "b", "9", "2", "4", "2", "7", "a", "e", "4", "1", "e", "4", "6", "4",
      "9", "b", "9", "3", "4", "c", "a", "4", "9", "5", "9", "9", "1", "b",
      "7", "8", "5", "2", "b", "8", "5", "5">>

TestDigestUpper ==
    <<"E", "3", "B", "0", "C", "4", "4", "2", "9", "8", "F", "C", "1", "C",
      "1", "4", "9", "A", "F", "B", "F", "4", "C", "8", "9", "9", "6", "F",
      "B", "9", "2", "4", "2", "7", "A", "E", "4", "1", "E", "4", "6", "4",
      "9", "B", "9", "3", "4", "C", "A", "4", "9", "5", "9", "9", "1", "B",
      "7", "8", "5", "2", "B", "8", "5", "5">>

TestSize == 1024000

SpecExamplePath ==
    <<"/", "p", "r", "o", "j", "e", "c", "t", "A", "/", "r", "a", "w", "/",
      "r", "e", "a", "d", "s", "/", "R", "1", ".", "f", "a", "s", "t", "q",
      ".", "g", "z">>

SpecExampleDigest ==
    <<"4", "d", "9", "6", "7", "0", "e", "4", "c", "8", "f", "3", "e", "8",
      "b", "8", "a", "6", "c", "2", "d", "4", "f", "9", "1", "3", "6", "d",
      "7", "b", "8", "9", "e", "4", "b", "9", "d", "5", "e", "0", "d", "2",
      "a", "1", "c", "0", "b", "9", "f", "4", "c", "2", "d", "e", "0", "e",
      "8", "c", "7", "a", "c", "1", "a", "0">>

SpecExampleSize == 382991274

expected_namespace ==
    <<"3", "d", "b", "b", "8", "8", "6", "f", "-", "6", "2", "0", "b", "-",
      "3", "c", "5", "2", "-", "b", "c", "b", "1", "-", "1", "9", "9", "2",
      "e", "7", "c", "6", "c", "c", "d", "5">>

\* The UUID the docstring of compute_deterministic_uuid gives for the example.
DocExampleUUID ==
    <<"d", "6", "1", "9", "3", "9", "f", "c", "-", "2", "9", "1", "9", "-",
      "5", "1", "1", "f", "-", "8", "8", "f", "6", "-", "3", "d", "2", "d",
      "8", "5", "6", "6", "f", "5", "a", "4">>

UpperChar(c) == IF c \in DOMAIN ToUpper THEN ToUpper[c] ELSE c

\* str.upper()
Upper(s) == [i \in 1..Len(s) |-> UpperChar(s[i])]

(***************************************************************************)
(* Bounds of the model and the inputs they give.                           *)
(***************************************************************************)
NormMaxLen == 5

ValLenSlack == 1

DeriveMaxLen == 2

CliMaxLen == 1

NormPaths == StringsUpTo({"a", "/", "\\"}, NormMaxLen)

\* Digests of each length near 64 (and the empty one), clean or with one
\* character replaced at the start, the middle or the end.
ValLengths == {0} \cup ((DIGEST_LEN - ValLenSlack)..(DIGEST_LEN + ValLenSlack))

ValDigests ==
    LET clean == {DigestOf(<<>>, f, n) : f \in {"a", "F", "0"}, n \in ValLengths}
    IN  clean \cup
        {[d EXCEPT ![k] = c] :
            d \in {x \in clean : x # <<>>},
            k \in {1, DIGEST_LEN \div 2, DIGEST_LEN - ValLenSlack},
            c \in {"g", "G", ":", " ", NEWLINE, SURROGATE}}
        \cup {Append(d, NEWLINE) : d \in clean}

ValSizes == {-1, 0, 1}

DerivePaths == StringsUpTo({"a", "/", ":"}, DeriveMaxLen)

DeriveDigests ==
    {DigestLower, DigestUpper, DigestMixed, DigestOther, DigestShort, DigestColon}

DeriveSizes == {0, 12}

CliPaths == StringsUpTo({"a", "/", "\\", SURROGATE}, CliMaxLen)

CliDigests == {DigestLower, DigestUpper, DigestShort, DigestNonHex}

CliSizes == {-1, 0, 12}

TestInputs ==
    {<<TestPath, TestDigest, TestSize>>,
     <<TestPathRelative, TestDigest, TestSize>>,
     <<TestPath, TestDigestUpper, TestSize>>,
     <<SpecExamplePath, SpecExampleDigest, SpecExampleSize>>}

(***************************************************************************)
(* compute_deterministic_uuid                                              *)
(***************************************************************************)
\* The canonical strings the inputs above produce that uuid5 can encode.
KnownCanonicals ==
    {c \in {CanonicalDID(normalize_logical_path(t[1]), Lower(t[2]), t[3]) :
                t \in (DerivePaths \X DeriveDigests \X DeriveSizes)
                      \cup {x \in CliPaths \X CliDigests \X CliSizes :
                                validate_inputs(x[2], x[3]).is_valid}
                      \cup TestInputs} :
        \A i \in 1..Len(c) : Utf8Encodable(c[i])}

\* An evaluation cache: the pairs <<name, uuid5(ACED_NAMESPACE_load, name)>> for
\* the canonical strings above, computed once.
uuid5Known == {<<name, uuid5(ACED_NAMESPACE_load, name)>> : name \in KnownCanonicals}

Lookup(known, namespace, name) ==
    IF \E k \in known : k[1] = name
    THEN (CHOOSE k \in known : k[1] = name)[2]
    ELSE uuid5(namespace, name)

uuid5Cached(namespace, name) ==
    IF namespace = ACED_NAMESPACE_load
    THEN Lookup(uuid5Known, namespace, name)
    ELSE uuid5(namespace, name)

\* What a call gives: value is the string it returns (str of the UUID) unless
\* uuid5 raised; canonical and namespace are what it hashed.
CallResult(namespace, canonical, deterministic_uuid) ==
    [raised |-> deterministic_uuid.raised,
     canonical |-> canonical,
     namespace |-> namespace,
     value |-> IF deterministic_uuid.raised = ""
               THEN UUIDStr(deterministic_uuid.value)
               ELSE <<>>]

DeriveCanonical(namespace, canonical) ==
    CallResult(namespace, canonical, uuid5Cached(namespace, canonical))

\* A variant: the digest used as given, not lower-cased.
compute_without_lower(namespace, logical_path, sha256, size) ==
    DeriveCanonical(namespace,
                    CanonicalDID(normalize_logical_path(logical_path), sha256, size))

\* namespace is the value of the global ACED_NAMESPACE that the call reads.
compute_deterministic_uuid(namespace, logical_path, sha256, size) ==
    DeriveCanonical(namespace,
                    CanonicalDID(normalize_logical_path(logical_path), Lower(sha256),
                                 size))

(***************************************************************************)
(* State.                                                                  *)
(***************************************************************************)
VARIABLES
    ACED_NAMESPACE,  \* the module global, a UUID
    sys_argv_len,    \* len(sys.argv)
    args,            \* what parser.parse_args() returned
    pc,              \* where the process is
    is_valid,        \* main's locals
    error_msg,
    generated_uuid,
    stdout,          \* the lines printed so far
    stderr,
    exit_code,       \* <<>> while the process runs, <<code>> once it has exited
    calls,           \* the calls of compute_deterministic_uuid the process made
    norm_in,         \* a path, and normalize_logical_path applied to it, then
    norm_out,        \*   to that result
    val_in,          \* a (sha256, size) and validate_inputs of it
    val_out,
    der_calls        \* calls of compute_deterministic_uuid, with their results

vars ==
    <<ACED_NAMESPACE, sys_argv_len, args, pc, is_valid, error_msg, generated_uuid,
      stdout, stderr, exit_code, calls, norm_in, norm_out, val_in, val_out,
      der_calls>>

cliVars ==
    <<sys_argv_len, args, pc, is_valid, error_msg, generated_uuid, stdout, stderr,
      exit_code, calls>>

harnessVars == <<norm_in, norm_out, val_in, val_out, der_calls>>

\* An optional value: <<>> is None, <<v>> is v.
None == <<>>

Some(v) == <<v>>

NoArgs ==
    [path |-> <<>>, sha256 |-> <<>>, size |-> 0, show_canonical |-> FALSE,
     show_namespace |-> FALSE, verify |-> None]

\* The values of --verify tried with a path, digest and size: none, the empty
\* string, the UUID of another file, and the UUID of this one as printed and in
\* upper case.
VerifyOf(r) == IF r.raised = "" THEN {Some(r.value), Some(Upper(r.value))} ELSE {}

VerifyChoices(path, sha256, size) ==
    {None, Some(<<>>), Some(DocExampleUUID)}
    \cup (IF validate_inputs(sha256, size).is_valid
          THEN VerifyOf(compute_deterministic_uuid(ACED_NAMESPACE_load, path, sha256,
                                                   size))
          ELSE {})

ProcessStart ==
    /\ pc = "start"
    /\ is_valid = FALSE
    /\ error_msg = <<>>
    /\ generated_uuid = <<>>
    /\ stdout = <<>>
    /\ stderr = <<>>
    /\ exit_code = None
    /\ calls = <<>>

ProcessIdle ==
    /\ sys_argv_len = 0
    /\ args = NoArgs
    /\ pc = "idle"
    /\ is_valid = FALSE
    /\ error_msg = <<>>
    /\ generated_uuid = <<>>
    /\ stdout = <<>>
    /\ stderr = <<>>
    /\ exit_code = None
    /\ calls = <<>>

HarnessIdle ==
    /\ norm_in = <<>>
    /\ norm_out = <<>>
    /\ val_in = <<>>
    /\ val_out = <<>>
    /\ der_calls = <<>>

\* The script run as a program: the module is loaded, then the command line
\* is either empty or holds the three positionals and any of the options.
Init ==
    /\ ACED_NAMESPACE = ACED_NAMESPACE_load
    /\ \/ sys_argv_len = 1 /\ args = NoArgs
       \/ \E path \in CliPaths, sha256 \in CliDigests, size \in CliSizes,
             show_canonical \in BOOLEAN, show_namespace \in BOOLEAN :
            \E verify \in VerifyChoices(path, sha256, size) :
               /\ args = [path |-> path, sha256 |-> sha256, size |-> size,
                          show_canonical |-> show_canonical,
                          show_namespace |-> show_namespace, verify |-> verify]
               /\ sys_argv_len = 4 + (IF show_canonical THEN 1 ELSE 0)
                                   + (IF show_namespace THEN 1 ELSE 0)
                                   + (IF verify # None THEN 2 ELSE 0)
    /\ ProcessStart
    /\ HarnessIdle

(***************************************************************************)
(* main                                                                    *)
(***************************************************************************)
\* An uncaught exception: the traceback on stderr, exit status 1.
Crash(exception) ==
    /\ stderr' = Append(stderr, <<"Traceback (most recent call last): ", exception>>)
    /\ exit_code' = Some(1)
    /\ pc' = "exited"

\* is_valid, error_msg = validate_inputs(args.sha256, args.size), and the exit
\* on an invalid input.
MainValidated(v) ==
    /\ is_valid' = v.is_valid
    /\ error_msg' = v.error_msg
    /\ IF ~v.is_valid
       THEN /\ stderr' = Append(stderr, <<"Error: ">> \o v.error_msg)
            /\ exit_code' = Some(1)
            /\ pc' = "exited"
       ELSE /\ pc' = "compute"
            /\ UNCHANGED <<stderr, exit_code>>

MainValidate ==
    /\ pc = "start"
    /\ sys_argv_len # 1
    /\ MainValidated(validate_inputs(args.sha256, args.size))
    /\ UNCHANGED <<ACED_NAMESPACE, sys_argv_len, args, generated_uuid, stdout, calls>>
    /\ UNCHANGED harnessVars

\* generated_uuid = compute_deterministic_uuid(args.path, args.sha256, args.size)
MainComputed(r) ==
    /\ calls' = Append(calls, [logical_path |-> args.path, sha256 |-> args.sha256,
                               size |-> args.size, result |-> r])
    /\ IF r.raised # ""
       THEN /\ Crash(r.raised)
            /\ UNCHANGED generated_uuid
       ELSE /\ generated_uuid' = r.value
            /\ pc' = "show_canonical"
            /\ UNCHANGED <<stderr, exit_code>>

MainCompute ==
    /\ pc = "compute"
    /\ MainComputed(compute_deterministic_uuid(ACED_NAMESPACE, args.path, args.sha256,
                                               args.size))
    /\ UNCHANGED <<ACED_NAMESPACE, sys_argv_len, args, is_valid, error_msg, stdout>>
    /\ UNCHANGED harnessVars

\* A variant: the digest printed as given, not lower-cased.
MainCanonicalDIDAsGiven(a) ==
    CanonicalDID(normalize_logical_path(a.path), a.sha256, a.size)

\* The canonical string main builds for --show-canonical.
MainCanonicalDID(a) ==
    CanonicalDID(normalize_logical_path(a.path), Lower(a.sha256), a.size)

MainShowCanonical ==
    /\ pc = "show_canonical"
    /\ stdout' = IF args.show_canonical
                 THEN Append(stdout, <<"Canonical DID: ">> \o MainCanonicalDID(args))
                 ELSE stdout
    /\ pc' = "show_namespace"
    /\ UNCHANGED <<ACED_NAMESPACE, sys_argv_len, args, is_valid, error_msg,
                   generated_uuid, stderr, exit_code, calls>>
    /\ UNCHANGED harnessVars

MainShowNamespace ==
    /\ pc = "show_namespace"
    /\ stdout' = IF args.show_namespace
                 THEN Append(stdout, <<"Namespace UUID: ">> \o UUIDStr(ACED_NAMESPACE))
                 ELSE stdout
    /\ pc' = "print_uuid"
    /\ UNCHANGED <<ACED_NAMESPACE, sys_argv_len, args, is_valid, error_msg,
                   generated_uuid, stderr, exit_code, calls>>
    /\ UNCHANGED harnessVars

MainPrintUUID ==
    /\ pc = "print_uuid"
    /\ stdout' = Append(stdout, <<"Generated UUID: ">> \o generated_uuid)
    /\ pc' = "verify"
    /\ UNCHANGED <<ACED_NAMESPACE, sys_argv_len, args, is_valid, error_msg,
                   generated_uuid, stderr, exit_code, calls>>
    /\ UNCHANGED harnessVars

\* bool(args.verify): None and the empty string are false.
Truthy(option) == option # None /\ option[1] # <<>>

\* if args.verify: ... and, without it, the return from main and the exit.
MainVerify ==
    /\ pc = "verify"
    /\ IF Truthy(args.verify)
       THEN IF generated_uuid = args.verify[1]
            THEN /\ stdout' = Append(stdout, <<"<U+2713> UUID matches expected value">>)
                 /\ exit_code' = Some(0)
            ELSE /\ stdout' = stdout \o
                        << <<"<U+2717> UUID mismatch!">>,
                           <<"  Expected: ">> \o args.verify[1],
                           <<"  Got:      ">> \o generated_uuid >>
                 /\ exit_code' = Some(1)
       ELSE /\ exit_code' = Some(0)
            /\ UNCHANGED stdout
    /\ pc' = "exited"
    /\ UNCHANGED <<ACED_NAMESPACE, sys_argv_len, args, is_valid, error_msg,
                   generated_uuid, stderr, calls>>
    /\ UNCHANGED harnessVars

(***************************************************************************)
(* test_cases, run when the command line is empty.                         *)
(***************************************************************************)
CallRecord(logical_path, sha256, size, namespace) ==
    [logical_path |-> logical_path, sha256 |-> sha256, size |-> size,
     result |-> compute_deterministic_uuid(namespace, logical_path, sha256, size)]

\* The body of test_cases, given its six calls and str(ACED_NAMESPACE).
TestsRun(c1, c2a, c2b, c3a, c3b, c4, namespace_str) ==
    IF c2a.result.value # c2b.result.value
    THEN /\ calls' = <<c1, c2a, c2b>>
         /\ stdout' = << <<"Running test cases...">>,
                         <<"Test 1: ">> \o c1.result.value >>
         /\ Crash("AssertionError: Path normalization failed")
    ELSE IF c3a.result.value # c3b.result.value
    THEN /\ calls' = <<c1, c2a, c2b, c3a, c3b>>
         /\ stdout' = << <<"Running test cases...">>,
                         <<"Test 1: ">> \o c1.result.value,
                         <<"Test 2: Path normalization works <U+2713>">> >>
         /\ Crash("AssertionError: Case sensitivity failed")
    ELSE IF namespace_str # expected_namespace
    THEN /\ calls' = <<c1, c2a, c2b, c3a, c3b, c4>>
         /\ stdout' = << <<"Running test cases...">>,
                         <<"Test 1: ">> \o c1.result.value,
                         <<"Test 2: Path normalization works <U+2713>">>,
                         <<"Test 3: Case insensitive hash works <U+2713>">>,
                         <<"Test 4 (spec example): ">> \o c4.result.value,
                         <<"Test 5: ACED_NAMESPACE = ">> \o namespace_str >>
         /\ Crash("AssertionError: Namespace mismatch")
    ELSE /\ calls' = <<c1, c2a, c2b, c3a, c3b, c4>>
         /\ stdout' = << <<"Running test cases...">>,
                         <<"Test 1: ">> \o c1.result.value,
                         <<"Test 2: Path normalization works <U+2713>">>,
                         <<"Test 3: Case insensitive hash works <U+2713>">>,
                         <<"Test 4 (spec example): ">> \o c4.result.value,
                         <<"Test 5: ACED_NAMESPACE = ">> \o namespace_str,
                         <<"Test 5: Namespace UUID matches Go implementation <U+2713>">>,
                         <<"">>,
                         <<"All tests passed! <U+2713>">> >>
         /\ exit_code' = Some(0)
         /\ pc' = "exited"
         /\ UNCHANGED stderr

test_cases ==
    /\ pc = "start"
    /\ sys_argv_len = 1
    /\ TestsRun(CallRecord(TestPath, TestDigest, TestSize, ACED_NAMESPACE),
                CallRecord(TestPathRelative, TestDigest, TestSize, ACED_NAMESPACE),
                CallRecord(TestPath, TestDigest, TestSize, ACED_NAMESPACE),
                CallRecord(TestPath, TestDigestUpper, TestSize, ACED_NAMESPACE),
                CallRecord(TestPath, TestDigest, TestSize, ACED_NAMESPACE),
                CallRecord(SpecExamplePath, SpecExampleDigest, SpecExampleSize,
                           ACED_NAMESPACE),
                UUIDStr(ACED_NAMESPACE))
    /\ UNCHANGED <<ACED_NAMESPACE, sys_argv_len, args, is_valid, error_msg,
                   generated_uuid>>
    /\ UNCHANGED harnessVars

Next ==
    \/ test_cases
    \/ MainValidate
    \/ MainCompute
    \/ MainShowCanonical
    \/ MainShowNamespace
    \/ MainPrintUUID
    \/ MainVerify

Spec == Init /\ [][Next]_vars

(***************************************************************************)
(* normalize_logical_path applied to a path, then to its own result.       *)
(***************************************************************************)
InitNormalize ==
    /\ ACED_NAMESPACE = ACED_NAMESPACE_load
    /\ ProcessIdle
    /\ norm_in \in NormPaths
    /\ norm_out = <<>>
    /\ val_in = <<>>
    /\ val_out = <<>>
    /\ der_calls = <<>>

Normalize ==
    /\ Len(norm_out) < 2
    /\ norm_out' = Append(norm_out,
                          normalize_logical_path(IF norm_out = <<>>
                                                 THEN norm_in
                                                 ELSE norm_out[Len(norm_out)]))
    /\ UNCHANGED <<ACED_NAMESPACE, norm_in, val_in, val_out, der_calls>>
    /\ UNCHANGED cliVars

NextNormalize == Normalize

SpecNormalize == InitNormalize /\ [][NextNormalize]_vars

(***************************************************************************)
(* validate_inputs applied to a digest and a size.                         *)
(***************************************************************************)
InitValidate ==
    /\ ACED_NAMESPACE = ACED_NAMESPACE_load
    /\ ProcessIdle
    /\ norm_in = <<>>
    /\ norm_out = <<>>
    /\ val_in \in [sha256 : ValDigests, size : ValSizes]
    /\ val_out = None
    /\ der_calls = <<>>

Validate ==
    /\ val_out = None
    /\ val_out' = Some(validate_inputs(val_in.sha256, val_in.size))
    /\ UNCHANGED <<ACED_NAMESPACE, norm_in, norm_out, val_in, der_calls>>
    /\ UNCHANGED cliVars

NextValidate == Validate

SpecValidate == InitValidate /\ [][NextValidate]_vars

(***************************************************************************)
(* compute_deterministic_uuid called twice.                                *)
(***************************************************************************)
InitDerive ==
    /\ ACED_NAMESPACE = ACED_NAMESPACE_load
    /\ ProcessIdle
    /\ HarnessIdle

Derive(logical_path, sha256, size) ==
    /\ Len(der_calls) < 2
    /\ der_calls' = Append(der_calls,
                           CallRecord(logical_path, sha256, size, ACED_NAMESPACE))
    /\ UNCHANGED <<ACED_NAMESPACE, norm_in, norm_out, val_in, val_out>>
    /\ UNCHANGED cliVars

NextDerive ==
    \E logical_path \in DerivePaths, sha256 \in DeriveDigests, size \in DeriveSizes :
        Derive(logical_path, sha256, size)

SpecDerive == InitDerive /\ [][NextDerive]_vars

(***************************************************************************)
(* Properties.                                                             *)
(***************************************************************************)
\* The places of the stdout lines that begin with the given text.
StdoutLines(prefix) ==
    {i \in 1..Len(stdout) : stdout[i] # <<>> /\ stdout[i][1] = prefix}

\* Whether the run is one of main on inputs that validate_inputs accepts.
MainRunOnValidInputs ==
    sys_argv_len > 1 /\ validate_inputs(args.sha256, args.size).is_valid

DeriveKeyOf(call) ==
    <<normalize_logical_path(call.logical_path), Lower(call.sha256), call.size>>

\* C1: two calls of compute_deterministic_uuid whose normalized paths, lower-cased
\* digests and sizes agree build the same canonical string and give the same
\* outcome (the same UUID); so do two calls that differ only in the case of the
\* digest, or only by a slash put before the path, or not at all.
C1_DependsOnlyOnNormalizedInputs ==
    Len(der_calls) = 2 =>
        /\ DeriveKeyOf(der_calls[1]) = DeriveKeyOf(der_calls[2])
              => der_calls[1].result = der_calls[2].result
        /\ ( /\ der_calls[1].logical_path = der_calls[2].logical_path
             /\ der_calls[1].size = der_calls[2].size
             /\ der_calls[2].sha256 \in {der_calls[1].sha256, Upper(der_calls[1].sha256),
                                         Lower(der_calls[1].sha256)} )
              => der_calls[1].result.value = der_calls[2].result.value
        /\ ( /\ der_calls[2].logical_path = <<"/">> \o der_calls[1].logical_path
             /\ der_calls[1].size = der_calls[2].size
             /\ der_calls[1].sha256 = der_calls[2].sha256 )
              => der_calls[1].result.value = der_calls[2].result.value

\* Two calls that differ in the spelling of the path and in the case of the
\* digest, and return the same UUID.
C1_Witness ==
    /\ Len(der_calls) = 2
    /\ der_calls[1].logical_path # der_calls[2].logical_path
    /\ der_calls[1].sha256 # der_calls[2].sha256
    /\ DeriveKeyOf(der_calls[1]) = DeriveKeyOf(der_calls[2])
    /\ der_calls[1].result.raised = ""
    /\ Len(der_calls[1].result.value) = 36
    /\ der_calls[1].result.value = der_calls[2].result.value

C2_WellFormed(p) ==
    /\ \A i \in 1..Len(p) : p[i] # "\\"
    /\ \A i \in 1..(Len(p) - 1) : ~(p[i] = "/" /\ p[i + 1] = "/")
    /\ p # <<>>
    /\ p[1] = "/"
    /\ p[Len(p)] = "/" => p = <<"/">>

\* C2: whatever the input, what normalize_logical_path returns holds no
\* backslash and no two slashes in a row, begins with a slash and ends with one
\* only when it is "/"; the empty string gives "/".
C2_NormalizedIsWellFormed ==
    /\ \A i \in 1..Len(norm_out) : C2_WellFormed(norm_out[i])
    /\ (norm_in = <<>> /\ norm_out # <<>>) => norm_out[1] = <<"/">>

\* A path with a backslash right before a slash has been normalized.
C2_Witness ==
    /\ norm_out # <<>>
    /\ \E i \in 1..(Len(norm_in) - 1) : norm_in[i] = "\\" /\ norm_in[i + 1] = "/"
    /\ \E i \in 1..Len(norm_in) : norm_in[i] = "a"

\* C3: normalize_logical_path applied to its own result gives that result.
C3_NormalizeIdempotent ==
    Len(norm_out) = 2 => norm_out[2] = norm_out[1]

\* A path that normalization changed has been normalized twice.
C3_Witness ==
    /\ Len(norm_out) = 2
    /\ norm_out[1] # norm_in
    /\ Len(norm_out[1]) > 1

C4_IsHex(c) ==
    c \in {"0", "1", "2", "3", "4", "5", "6", "7", "8", "9", "a", "b", "c", "d",
           "e", "f", "A", "B", "C", "D", "E", "F"}

\* C4: validate_inputs reports the first rule that fails, in the order length,
\* format, size: the length error (with the actual length) for any digest not
\* 64 long, the format error for a 64-character digest with a character that
\* is not hexadecimal, the size error for a good digest with a negative size;
\* and it succeeds exactly when the three rules hold.
C4_FirstFailureWins ==
    val_out # None =>
        LET d == val_in.sha256
            out == val_out[1]
            allHex == \A i \in 1..Len(d) : C4_IsHex(d[i])
        IN  /\ Len(d) # 64 =>
                  out = [is_valid |-> FALSE,
                         error_msg |-> <<"SHA256 must be 64 characters, got ">>
                                       \o IntStr(Len(d))]
            /\ (Len(d) = 64 /\ ~allHex) =>
                  out = [is_valid |-> FALSE, error_msg |-> <<"SHA256 must be hexadecimal">>]
            /\ (Len(d) = 64 /\ allHex /\ val_in.size < 0) =>
                  out = [is_valid |-> FALSE, error_msg |-> <<"Size must be non-negative">>]
            /\ out.is_valid <=> (Len(d) = 64 /\ allHex /\ val_in.size >= 0)

\* A digest that breaks the length rule and the format rule, with a negative
\* size, has been given the length error.
C4_Witness ==
    /\ val_out # None
    /\ Len(val_in.sha256) = 63
    /\ \E i \in 1..Len(val_in.sha256) : ~C4_IsHex(val_in.sha256[i])
    /\ val_in.size < 0
    /\ val_out[1].error_msg = <<"SHA256 must be 64 characters, got ", "6", "3">>

\* C5: in a run of main, an input that validate_inputs refuses ends the run with
\* "Error: <message>" on stderr, exit code 1, no call of
\* compute_deterministic_uuid and nothing on stdout; every call of
\* compute_deterministic_uuid is on validated inputs; and every such call runs to
\* completion.
C5_ValidationBeforeDerivation ==
    sys_argv_len > 1 =>
        /\ (pc # "start" /\ ~validate_inputs(args.sha256, args.size).is_valid) =>
              /\ pc = "exited"
              /\ stderr = << <<"Error: ">> \o validate_inputs(args.sha256, args.size).error_msg >>
              /\ exit_code = Some(1)
              /\ calls = <<>>
              /\ stdout = <<>>
        /\ \A i \in 1..Len(calls) :
              validate_inputs(calls[i].sha256, calls[i].size).is_valid
        /\ \A i \in 1..Len(calls) : calls[i].result.raised = ""

\* C6: a run of main on valid inputs with --verify that has computed the UUID
\* ends with exit code 0 and the match message when the value given is that
\* UUID, and with exit code 1 and the mismatch lines showing both values when
\* it is any other string.
C6_VerifyDecidesOutcome ==
    ( /\ MainRunOnValidInputs
      /\ pc = "exited"
      /\ args.verify # None
      /\ calls # <<>>
      /\ calls[1].result.raised = "" ) =>
        IF args.verify[1] = calls[1].result.value
        THEN /\ exit_code = Some(0)
             /\ StdoutLines("<U+2713> UUID matches expected value") # {}
        ELSE /\ exit_code = Some(1)
             /\ \E i \in 1..(Len(stdout) - 2) :
                   /\ stdout[i] = <<"<U+2717> UUID mismatch!">>
                   /\ stdout[i + 1] = <<"  Expected: ">> \o args.verify[1]
                   /\ stdout[i + 2] = <<"  Got:      ">> \o calls[1].result.value

\* C7: a finished run of main on valid inputs has printed "Generated UUID"
\* once, "Canonical DID" once exactly when --show-canonical is set and
\* "Namespace UUID" once exactly when --show-namespace is set, in the order
\* canonical, namespace, generated, verification message; and it has ended with
\* exit code 0 when --verify was not given.
C7_OutputLines ==
    (MainRunOnValidInputs /\ pc = "exited") =>
        /\ Cardinality(StdoutLines("Generated UUID: ")) = 1
        /\ Cardinality(StdoutLines("Canonical DID: ")) = (IF args.show_canonical THEN 1 ELSE 0)
        /\ Cardinality(StdoutLines("Namespace UUID: ")) = (IF args.show_namespace THEN 1 ELSE 0)
        /\ \A c \in StdoutLines("Canonical DID: "), n \in StdoutLines("Namespace UUID: ") :
              c < n
        /\ \A g \in StdoutLines("Generated UUID: ") :
              /\ \A o \in StdoutLines("Canonical DID: ") \cup StdoutLines("Namespace UUID: ") :
                    o < g
              /\ \A v \in 1..Len(stdout) :
                    v \notin (StdoutLines("Canonical DID: ")
                              \cup StdoutLines("Namespace UUID: ")
                              \cup StdoutLines("Generated UUID: ")) => g < v
        /\ args.verify = None => exit_code = Some(0)

C8_Expected ==
    <<"3", "d", "b", "b", "8", "8", "6", "f", "-", "6", "2", "0", "b", "-",
      "3", "c", "5", "2", "-", "b", "c", "b", "1", "-", "1", "9", "9", "2",
      "e", "7", "c", "6", "c", "c", "d", "5">>

\* C8: ACED_NAMESPACE is 3dbb886f-620b-3c52-bcb1-1992e7c6ccd5 in every state,
\* hence never modified, and it is the namespace every call of
\* compute_deterministic_uuid hashed under.
C8_NamespaceAnchor ==
    /\ UUIDStr(ACED_NAMESPACE) = C8_Expected
    /\ \A i \in 1..Len(calls) : UUIDStr(calls[i].result.namespace) = C8_Expected

\* A run of main has called compute_deterministic_uuid, which returned a UUID,
\* and printed the namespace.
C8_Witness ==
    /\ sys_argv_len > 1
    /\ pc = "exited"
    /\ Len(calls) = 1
    /\ calls[1].result.raised = ""
    /\ StdoutLines("Namespace UUID: ") # {}

\* C9: two validated calls that build the same canonical string have the same
\* normalized path, the same lower-cased digest and the same size.
C9_CanonicalInjective ==
    ( /\ Len(der_calls) = 2
      /\ validate_inputs(der_calls[1].sha256, der_calls[1].size).is_valid
      /\ validate_inputs(der_calls[2].sha256, der_calls[2].size).is_valid
      /\ der_calls[1].result.canonical = der_calls[2].result.canonical ) =>
        /\ normalize_logical_path(der_calls[1].logical_path)
             = normalize_logical_path(der_calls[2].logical_path)
        /\ Lower(der_calls[1].sha256) = Lower(der_calls[2].sha256)
        /\ der_calls[1].size = der_calls[2].size

\* Two validated calls on paths with a colon, spelled differently, that build
\* the same canonical string.
C9_Witness ==
    /\ Len(der_calls) = 2
    /\ validate_inputs(der_calls[1].sha256, der_calls[1].size).is_valid
    /\ validate_inputs(der_calls[2].sha256, der_calls[2].size).is_valid
    /\ der_calls[1].result.canonical = der_calls[2].result.canonical
    /\ der_calls[1].logical_path # der_calls[2].logical_path
    /\ \E i \in 1..Len(der_calls[1].logical_path) : der_calls[1].logical_path[i] = ":"

\* C10: in a run of main, a printed "Canonical DID" line shows the canonical
\* string that the run's call of compute_deterministic_uuid hashed, and a printed
\* "Generated UUID" line shows the UUID that call returned for it.
C10_PrintedCanonicalIsHashed ==
    (sys_argv_len > 1 /\ StdoutLines("Canonical DID: ") # {}) =>
        /\ Len(calls) = 1
        /\ \A i \in StdoutLines("Canonical DID: ") :
              stdout[i] = <<"Canonical DID: ">> \o calls[1].result.canonical
        /\ \A i \in StdoutLines("Generated UUID: ") :
              /\ calls[1].result.raised = ""
              /\ stdout[i] = <<"Generated UUID: ">> \o calls[1].result.value

\* A finished run with --show-canonical on an upper-case digest, both lines
\* printed.
C10_Witness ==
    /\ sys_argv_len > 1
    /\ pc = "exited"
    /\ args.show_canonical
    /\ args.sha256 = DigestUpper
    /\ StdoutLines("Canonical DID: ") # {}
    /\ StdoutLines("Generated UUID: ") # {}

====
